---- MODULE Spec2Model ----
(***************************************************************************)
(* Model of unifi.py: one run of the stock-check script.                   *)
(*                                                                         *)
(* The script is sequential.  Its state is the position of the run (pc),   *)
(* the loaded configuration, the locals of main() (driver, chrome_data_dir,*)
(* the per-target (available, error) pairs), and the observable effects:   *)
(* send_notification calls, driver.get / save_screenshot / driver.quit     *)
(* calls and the process exit status.                                      *)
(***************************************************************************)
EXTENDS Integers, Sequences, FiniteSets, TLC

VARIABLES pc, config, exitCode, chrome_data_dir, driver, quitCalls,
          available, error, failure, loads, navigations, screenshots,
          notifications, pending, fatal, env, result

vars == <<pc, config, exitCode, chrome_data_dir, driver, quitCalls,
          available, error, failure, loads, navigations, screenshots,
          notifications, pending, fatal, env, result>>

\* Largest number of elements one CSS selector matches on a page.
MaxElems == 2

-----------------------------------------------------------------------------
(* Python values *)

None == [none |-> TRUE, text |-> <<>>]

Str(pieces) == [none |-> FALSE, text |-> pieces]

\* Python truthiness of an Optional[str]: None and "" are falsy.
Truthy(v) == (~v.none) /\ Len(v.text) > 0

-----------------------------------------------------------------------------
(* Configuration (config.yaml, loaded at import time) *)

RequiredKeys == {"URL_SWITCH", "URL_WIFI", "URL_GATEWAY", "DRIVER_PATH"}

TokenKeys == {"PUSHOVER_API_TOKEN", "PUSHOVER_USER_KEY"}

\* A parsed config.yaml: every key is absent, present but empty, or set.
Configs ==
    { c \in [RequiredKeys \cup TokenKeys -> {"absent", "empty", "set"}] :
        \A k \in RequiredKeys : c[k] # "empty" }

NoConfig == [k \in RequiredKeys \cup TokenKeys |-> "absent"]

\* The exception the module-level code raises while loading, or "none".
ConfigLoadError(file, c) ==
    IF file = "missing" THEN "FileNotFoundError"
    ELSE IF file = "malformed" THEN "YAMLError"
    ELSE IF \E k \in RequiredKeys : c[k] = "absent" THEN "KeyError"
    ELSE "none"

-----------------------------------------------------------------------------
(* Targets *)

Targets == {"switch", "wifi", "gateway"}

ProductName(t) ==
    CASE t = "switch"  -> "Pro Max 16 PoE Switch"
      [] t = "wifi"    -> "U7 Pro Max WiFi AP"
      [] t = "gateway" -> "Cloud Gateway Fiber"

-----------------------------------------------------------------------------
(* Pages as the browser presents them to check_product_availability *)

SOLD_OUT == <<"S", "o", "l", "d", " ", "O", "u", "t">>

\* Element texts: the marker embedded in a longer text, and a text that
\* differs from the marker in letter case only.
Texts == { <<"(", "S", "o", "l", "d", " ", "O", "u", "t", ")">>,
           <<"s", "o", "l", "d", " ", "o", "u", "t">> }

sold_out_selectors ==
    << ".sc-190ba8g-4", "button[label=\"Sold Out\"]", "div.sc-1x3sjmh-0" >>

Selectors == { sold_out_selectors[i] : i \in 1..Len(sold_out_selectors) }

ElementLists == UNION { [1..n -> Texts] : n \in 0..MaxElems }

\* What driver.find_elements does for one selector on one page.
Queries ==
    { [kind |-> "elements", elements |-> es] : es \in ElementLists }
    \cup { [kind |-> k, elements |-> <<>>] :
             k \in {"NoSuchElementException", "WebDriverException"} }

Doms == [Selectors -> Queries]

EmptyDom == [s \in Selectors |-> [kind |-> "elements", elements |-> <<>>]]

\* load: what driver.get / WebDriverWait do; shot: what save_screenshot does.
Envs ==
    { [load |-> l, dom |-> EmptyDom, shot |-> "ok"] :
        l \in {"get_timeout", "wait_timeout", "nav_error"} }
    \cup { [load |-> "ok", dom |-> d, shot |-> s] :
             d \in Doms, s \in {"ok", "write_failed", "raises"} }

NoEnv == [load |-> "none", dom |-> EmptyDom, shot |-> "ok"]

-----------------------------------------------------------------------------
(* check_product_availability *)

\* 'Sold Out' in element.text
Contains(needle, hay) ==
    \E i \in 0..(Len(hay) - Len(needle)) :
        SubSeq(hay, i + 1, i + Len(needle)) = needle

\* A scan that looks at the first matched element only.
ScanElements_FirstOnly(elements, i) ==
    Len(elements) >= 1 /\ Contains(SOLD_OUT, elements[1])

RECURSIVE ScanElements(_, _)
\* for element in elements: if 'Sold Out' in element.text: found; break
ScanElements(elements, i) ==
    IF i > Len(elements) THEN FALSE
    ELSE IF Contains(SOLD_OUT, elements[i]) THEN TRUE
    ELSE ScanElements(elements, i + 1)

RECURSIVE ScanSelectors(_, _, _)
\* for selector in sold_out_selectors: ... ; exc is an exception that
\* leaves the loop, queried the number of selectors evaluated.
ScanSelectors(dom, selectors, k) ==
    IF k > Len(selectors)
    THEN [found |-> FALSE, exc |-> "none", queried |-> k - 1]
    ELSE LET q == dom[selectors[k]] IN
         IF q.kind = "NoSuchElementException"
         THEN ScanSelectors(dom, selectors, k + 1)
         ELSE IF q.kind = "WebDriverException"
         THEN [found |-> FALSE, exc |-> "WebDriverException", queried |-> k]
         ELSE IF ScanElements(q.elements, 1)
         THEN [found |-> TRUE, exc |-> "none", queried |-> k]
         ELSE ScanSelectors(dom, selectors, k + 1)

\* No except clause: the exception leaves check_product_availability.
OnException_Reraise(product_name, exc, shot) ==
    [available |-> FALSE, error |-> None, screenshot |-> shot, gets |-> 1,
     caught |-> exc, raised |-> exc]

\* No TimeoutException clause: a timeout is reported by the generic clause.
OnException_GenericOnly(product_name, exc, shot) ==
    [available |-> FALSE,
     error |-> Str(<<"Error checking ", product_name, " availability: ", exc>>),
     screenshot |-> shot, gets |-> 1, caught |-> exc, raised |-> "none"]

\* The two except clauses of check_product_availability.
OnException(product_name, exc, shot) ==
    IF exc = "TimeoutException"
    THEN [available |-> FALSE,
          error |-> Str(<<"Timeout while loading the page for ", product_name>>),
          screenshot |-> shot, gets |-> 1, caught |-> exc, raised |-> "none"]
    ELSE [available |-> FALSE,
          error |-> Str(<<"Error checking ", product_name,
                          " availability: ", exc>>),
          screenshot |-> shot, gets |-> 1, caught |-> exc, raised |-> "none"]

\* The (available, error) pair returned for one target, with the effects of
\* the call: screenshot (save_screenshot was called), gets (driver.get calls),
\* caught (the exception converted to an error), raised (an exception that
\* leaves the function).
CheckProductAvailability(product_name, e) ==
    IF e.load \in {"get_timeout", "wait_timeout"}
    THEN OnException(product_name, "TimeoutException", FALSE)
    ELSE IF e.load = "nav_error"
    THEN OnException(product_name, "WebDriverException", FALSE)
    ELSE LET s == ScanSelectors(e.dom, sold_out_selectors, 1) IN
         IF s.exc # "none"
         THEN OnException(product_name, s.exc, FALSE)
         ELSE IF s.found
         THEN [available |-> FALSE, error |-> None, screenshot |-> FALSE,
               gets |-> 1, caught |-> "none", raised |-> "none"]
         ELSE IF e.shot = "raises"
         THEN OnException(product_name, "WebDriverException", TRUE)
         ELSE [available |-> TRUE, error |-> None, screenshot |-> TRUE,
               gets |-> 1, caught |-> "none", raised |-> "none"]

NoResult == [available |-> FALSE, error |-> None, screenshot |-> FALSE,
             gets |-> 0, caught |-> "none", raised |-> "none"]

-----------------------------------------------------------------------------
(* send_notification *)

HttpOutcomes == {"200", "non200", "exception"}

\* A send_notification without its try/except around requests.post.
SendNotification_Raises(c, http) ==
    IF c["PUSHOVER_API_TOKEN"] = "absent" \/ c["PUSHOVER_USER_KEY"] = "absent"
    THEN [posted |-> FALSE, delivery |-> "error_logged:KeyError", raised |-> "none"]
    ELSE IF c["PUSHOVER_API_TOKEN"] = "empty" \/ c["PUSHOVER_USER_KEY"] = "empty"
    THEN [posted |-> FALSE, delivery |-> "error_logged:no_tokens", raised |-> "none"]
    ELSE IF http = "exception"
    THEN [posted |-> TRUE, delivery |-> "error_logged:exception",
          raised |-> "ConnectionError"]
    ELSE IF http = "200"
    THEN [posted |-> TRUE, delivery |-> "sent", raised |-> "none"]
    ELSE [posted |-> TRUE, delivery |-> "error_logged:non200", raised |-> "none"]

\* What one send_notification call does: posted (requests.post was called),
\* delivery (what was logged), raised (an exception that leaves the call).
SendNotification(c, http) ==
    IF c["PUSHOVER_API_TOKEN"] = "absent" \/ c["PUSHOVER_USER_KEY"] = "absent"
    THEN [posted |-> FALSE, delivery |-> "error_logged:KeyError", raised |-> "none"]
    ELSE IF c["PUSHOVER_API_TOKEN"] = "empty" \/ c["PUSHOVER_USER_KEY"] = "empty"
    THEN [posted |-> FALSE, delivery |-> "error_logged:no_tokens", raised |-> "none"]
    ELSE IF http = "exception"
    THEN [posted |-> TRUE, delivery |-> "error_logged:exception", raised |-> "none"]
    ELSE IF http = "200"
    THEN [posted |-> TRUE, delivery |-> "sent", raised |-> "none"]
    ELSE [posted |-> TRUE, delivery |-> "error_logged:non200", raised |-> "none"]

-----------------------------------------------------------------------------
(* main *)

\* The priorities of the two stock-status variants exchanged.
NotificationFor_Inverted(t, avail, err) ==
    IF Truthy(err)
    THEN [message  |-> <<"Error checking ", ProductName(t), ": ">> \o err.text,
          priority |-> -1,
          title    |-> "Error - Unifi Stock Check"]
    ELSE [message  |-> <<ProductName(t), " is ",
                         IF avail THEN "IN STOCK!" ELSE "still sold out",
                         " as of ", "now">>,
          priority |-> IF avail THEN -2 ELSE 1,
          title    |-> "Unifi Stock Check"]

\* The arguments main() passes to send_notification for one target.
NotificationFor(t, avail, err) ==
    IF Truthy(err)
    THEN [message  |-> <<"Error checking ", ProductName(t), ": ">> \o err.text,
          priority |-> -1,
          title    |-> "Error - Unifi Stock Check"]
    ELSE [message  |-> <<ProductName(t), " is ",
                         IF avail THEN "IN STOCK!" ELSE "still sold out",
                         " as of ", "now">>,
          priority |-> IF avail THEN 1 ELSE -2,
          title    |-> "Unifi Stock Check"]

\* The arguments the top-level handler passes to send_notification.
FatalNotification(exc) ==
    [message  |-> <<"Fatal error in stock check script: ", exc>>,
     priority |-> -1,
     title    |-> "Fatal Error - Unifi Stock Check"]

Init ==
    /\ pc = "import"
    /\ config = NoConfig
    /\ exitCode = -1                 \* the process has not exited
    /\ chrome_data_dir = "none"
    /\ driver = "unbound"
    /\ quitCalls = 0
    /\ available = << >>             \* locals of main(), unbound
    /\ error = << >>
    /\ failure = << >>             \* per target: the exception its check met
    /\ loads = << >>               \* per target: how its page load went
    /\ navigations = [t \in Targets |-> 0]
    /\ screenshots = {}
    /\ notifications = << >>
    /\ pending = "none"
    /\ fatal = "none"
    /\ env = NoEnv
    /\ result = [product |-> "", outcome |-> NoResult]

\* Module level: open config.yaml, yaml.safe_load, read the required keys.
\* An exception here is outside main() and ends the process.
LoadConfig ==
    /\ pc = "import"
    /\ \E file \in {"missing", "malformed", "ok"}, c \in Configs :
         LET exc == ConfigLoadError(file, c) IN
         IF exc # "none"
         THEN /\ pc' = "exited"
              /\ exitCode' = 1
              /\ fatal' = "config"
              /\ pending' = exc
              /\ UNCHANGED config
         ELSE /\ pc' = "main"
              /\ config' = c
              /\ UNCHANGED <<exitCode, fatal, pending>>
    /\ UNCHANGED <<chrome_data_dir, driver, quitCalls, available, error,
                   failure, loads, navigations, screenshots, notifications, env, result>>

\* random delay, then tempfile.mkdtemp() and the Chrome service.
MakeProfileDir ==
    /\ pc = "main"
    /\ \E wait_time \in 1..30, outcome \in {"ok", "OSError"} :
         IF outcome = "ok"
         THEN /\ chrome_data_dir' = "exists"
              /\ pc' = "launch"
              /\ UNCHANGED <<pending, fatal>>
         ELSE /\ pc' = "handler"
              /\ pending' = outcome
              /\ fatal' = "mkdtemp"
              /\ UNCHANGED chrome_data_dir
    /\ UNCHANGED <<config, exitCode, driver, quitCalls, available, error,
                   failure, loads, navigations, screenshots, notifications, env, result>>

\* driver = webdriver.Chrome(service=service, options=chrome_options)
LaunchBrowser ==
    /\ pc = "launch"
    /\ \E outcome \in {"ok", "WebDriverException"} :
         IF outcome = "ok"
         THEN /\ driver' = "open"
              /\ pc' = "check_switch"
              /\ UNCHANGED <<pending, fatal>>
         ELSE /\ pc' = "handler"
              /\ pending' = outcome
              /\ fatal' = "launch"
              /\ UNCHANGED driver
    /\ UNCHANGED <<config, exitCode, chrome_data_dir, quitCalls, available,
                   error, failure, loads, navigations, screenshots, notifications,
                   env, result>>

\* x_available, x_error = check_product_availability(driver, URL_X, name)
CheckTarget(t, here, next) ==
    /\ pc = here
    /\ \E e \in Envs :
         LET r == CheckProductAvailability(ProductName(t), e) IN
         /\ navigations' = [navigations EXCEPT ![t] = @ + r.gets]
         /\ screenshots' = IF r.screenshot
                           THEN screenshots \cup {t} ELSE screenshots
         /\ loads' = (t :> e.load) @@ loads
         /\ failure' = (t :> r.caught) @@ failure
         /\ IF r.raised # "none"
            THEN /\ pc' = "finally"
                 /\ pending' = r.raised
                 /\ UNCHANGED <<available, error>>
            ELSE /\ pc' = next
                 /\ available' = (t :> r.available) @@ available
                 /\ error' = (t :> r.error) @@ error
                 /\ UNCHANGED pending
    /\ UNCHANGED <<config, exitCode, chrome_data_dir, driver, quitCalls,
                   notifications, fatal, env, result>>

CheckSwitch == CheckTarget("switch", "check_switch", "check_wifi")

CheckWifi == CheckTarget("wifi", "check_wifi", "check_gateway")

CheckGateway == CheckTarget("gateway", "check_gateway", "notify_switch")

\* if x_error: send_notification(error variant) else: send_notification(status)
NotifyTarget(t, here, next) ==
    /\ pc = here
    /\ \E http \in HttpOutcomes :
         LET n == NotificationFor(t, available[t], error[t])
             s == SendNotification(config, http) IN
         /\ notifications' = Append(notifications,
                [about |-> t, message |-> n.message, priority |-> n.priority,
                 title |-> n.title, delivery |-> s.delivery])
         /\ IF s.raised # "none"
            THEN /\ pc' = "finally"
                 /\ pending' = s.raised
            ELSE /\ pc' = next
                 /\ UNCHANGED pending
    /\ UNCHANGED <<config, exitCode, chrome_data_dir, driver, quitCalls,
                   available, error, failure, loads, navigations, screenshots,
                   fatal, env, result>>

NotifySwitch == NotifyTarget("switch", "notify_switch", "notify_wifi")

\* A WiFi AP step that notifies only when there is something to report.
NotifyWifi_OnlyNews ==
    IF pc = "notify_wifi" /\ ~Truthy(error["wifi"]) /\ ~available["wifi"]
    THEN /\ pc' = "notify_gateway"
         /\ UNCHANGED <<config, exitCode, chrome_data_dir, driver, quitCalls,
                        available, error, failure, loads, navigations,
                        screenshots, notifications, pending, fatal, env, result>>
    ELSE NotifyTarget("wifi", "notify_wifi", "notify_gateway")

NotifyWifi == NotifyTarget("wifi", "notify_wifi", "notify_gateway")

NotifyGateway == NotifyTarget("gateway", "notify_gateway", "finally")

\* A teardown that is skipped when a target reported an error.
Finally_SkipsQuit ==
    /\ pc = "finally"
    /\ IF \E t \in DOMAIN error : Truthy(error[t])
       THEN UNCHANGED <<quitCalls, driver>>
       ELSE quitCalls' = quitCalls + 1 /\ driver' = "quit_called"
    /\ pc' = "exited"
    /\ exitCode' = 0
    /\ UNCHANGED <<config, chrome_data_dir, available, error, failure, loads,
                   navigations, screenshots, notifications, pending, fatal,
                   env, result>>

\* finally: driver.quit()
Finally ==
    /\ pc = "finally"
    /\ quitCalls' = quitCalls + 1
    /\ driver' = "quit_called"
    /\ \E outcome \in {"ok", "WebDriverException"} :
         IF outcome # "ok"
         THEN /\ pc' = "handler"
              /\ pending' = outcome
              /\ fatal' = "quit"
              /\ UNCHANGED exitCode
         ELSE IF pending # "none"
         THEN /\ pc' = "handler"
              /\ fatal' = "run"
              /\ UNCHANGED <<pending, exitCode>>
         ELSE /\ pc' = "exited"
              /\ exitCode' = 0
              /\ UNCHANGED <<pending, fatal>>
    /\ UNCHANGED <<config, chrome_data_dir, available, error, failure, loads,
                   navigations, screenshots, notifications, env, result>>

\* except Exception as e: log, send_notification(fatal); main() then returns
\* and the interpreter exits normally.
Handler ==
    /\ pc = "handler"
    /\ \E http \in HttpOutcomes :
         LET n == FatalNotification(pending)
             s == SendNotification(config, http) IN
         /\ notifications' = Append(notifications,
                [about |-> "fatal", message |-> n.message,
                 priority |-> n.priority, title |-> n.title,
                 delivery |-> s.delivery])
         /\ exitCode' = IF s.raised # "none" THEN 1 ELSE 0
    /\ pc' = "exited"
    /\ UNCHANGED <<config, chrome_data_dir, driver, quitCalls, available,
                   error, failure, loads, navigations, screenshots, pending, fatal,
                   env, result>>

Next ==
    \/ LoadConfig
    \/ MakeProfileDir
    \/ LaunchBrowser
    \/ CheckSwitch
    \/ CheckWifi
    \/ CheckGateway
    \/ NotifySwitch
    \/ NotifyWifi
    \/ NotifyGateway
    \/ Finally
    \/ Handler

Spec == Init /\ [][Next]_vars

-----------------------------------------------------------------------------
(* The detector alone, applied to every page within the bounds *)

InitDetect ==
    /\ pc = "detect"
    /\ config = NoConfig
    /\ exitCode = -1
    /\ chrome_data_dir = "none"
    /\ driver = "open"
    /\ quitCalls = 0
    /\ available = << >>
    /\ error = << >>
    /\ failure = << >>             \* per target: the exception its check met
    /\ loads = << >>               \* per target: how its page load went
    /\ navigations = [t \in Targets |-> 0]
    /\ screenshots = {}
    /\ notifications = << >>
    /\ pending = "none"
    /\ fatal = "none"
    /\ env \in Envs
    /\ result = [product |-> "", outcome |-> NoResult]

Detect ==
    /\ pc = "detect"
    /\ pc' = "detected"
    /\ \E t \in Targets :
         result' = [product |-> ProductName(t),
                    outcome |-> CheckProductAvailability(ProductName(t), env)]
    /\ UNCHANGED <<config, exitCode, chrome_data_dir, driver, quitCalls,
                   available, error, failure, loads, navigations, screenshots,
                   notifications, pending, fatal, env>>

NextDetect == Detect

SpecDetect == InitDetect /\ [][NextDetect]_vars

-----------------------------------------------------------------------------
(* Vocabulary of the properties *)

Launched == driver # "unbound"

Exited == pc = "exited"

\* Positions in notifications of the send_notification calls about x.
NotifsAbout(x) ==
    { i \in 1..Len(notifications) : notifications[i].about = x }

\* The result variant of a checked target.
Variant(t) ==
    IF ~error[t].none THEN "Error"
    ELSE IF available[t] THEN "InStock"
    ELSE "SoldOut"

TimeoutMessage(t) ==
    Str(<<"Timeout while loading the page for ", ProductName(t)>>)

\* text = prefix + "Sold Out" + suffix
HasSoldOutText(text) ==
    \E i \in 0..Len(text), j \in 1..(Len(text) + 1) :
        SubSeq(text, 1, i) \o SOLD_OUT \o SubSeq(text, j, Len(text)) = text

\* Some element matched by some selector shows the marker.
AnySoldOut(dom) ==
    \E sel \in Selectors :
        /\ dom[sel].kind = "elements"
        /\ \E i \in 1..Len(dom[sel].elements) :
               HasSoldOutText(dom[sel].elements[i])

SelectorOrders ==
    { o \in [1..Len(sold_out_selectors) -> Selectors] :
        \A a, b \in 1..Len(sold_out_selectors) : a # b => o[a] # o[b] }

\* Where a notification step leads when send_notification returns.
AfterNotification(p) ==
    CASE p = "notify_switch"  -> "notify_wifi"
      [] p = "notify_wifi"    -> "notify_gateway"
      [] p = "notify_gateway" -> "finally"
      [] p = "handler"        -> "exited"
      [] OTHER                -> "none"

FailedDeliveryStep ==
    /\ Len(notifications') = Len(notifications) + 1
    /\ notifications'[Len(notifications')].delivery # "sent"

SomeDeliveryFailed ==
    \E i \in 1..Len(notifications) : notifications[i].delivery # "sent"

-----------------------------------------------------------------------------
(* Properties *)

\* C1: in a run that launched the browser, send_notification is called
\* exactly once for each of the three targets by the time the run ends, and
\* never more than once, whatever the results of the targets are.
C1_OneNotificationPerTarget ==
    /\ \A t \in Targets : Cardinality(NotifsAbout(t)) <= 1
    /\ (Exited /\ Launched) =>
           \A t \in Targets : Cardinality(NotifsAbout(t)) = 1

C1_Witness ==
    /\ Exited /\ Launched
    /\ Variant("switch") = "Error"
    /\ Variant("wifi") = "SoldOut"
    /\ Variant("gateway") = "InStock"
    /\ \A t \in Targets : Cardinality(NotifsAbout(t)) = 1

\* C2: a failure met while checking a target becomes an Error result of that
\* target: the exception does not reach main(), targets that met no failure
\* have no error, every target is still checked once by the end of the run,
\* and the target is notified with the error variant (title
\* "Error - Unifi Stock Check", priority -1), not with a stock status.
C2_PerTargetFailureIsErrorResult ==
    /\ fatal # "run"
    /\ \A t \in DOMAIN failure :
           /\ t \in DOMAIN error
           /\ (failure[t] # "none") <=> (Variant(t) = "Error")
           /\ failure[t] # "none" =>
                  /\ Truthy(error[t])
                  /\ ~available[t]
                  /\ \A i \in NotifsAbout(t) :
                         /\ notifications[i].title = "Error - Unifi Stock Check"
                         /\ notifications[i].priority = -1
                         /\ notifications[i].message =
                                <<"Error checking ", ProductName(t), ": ">>
                                    \o error[t].text
                  /\ Exited => Cardinality(NotifsAbout(t)) = 1
    /\ (Exited /\ Launched) =>
           \A t \in Targets : t \in DOMAIN failure /\ navigations[t] = 1

C2_Witness ==
    /\ Exited /\ Launched
    /\ failure["switch"] = "TimeoutException"
    /\ failure["wifi"] = "none"
    /\ failure["gateway"] = "WebDriverException"
    /\ notifications[1].title = "Error - Unifi Stock Check"
    /\ notifications[2].title = "Unifi Stock Check"
    /\ notifications[3].title = "Error - Unifi Stock Check"

\* C3: once the browser is created, driver.quit() is called exactly once
\* before the run ends, also when checks or notifications failed; it is
\* never called twice and never without a browser.
C3_BrowserQuitExactlyOnce ==
    /\ quitCalls <= 1
    /\ ~Launched => quitCalls = 0
    /\ (Exited /\ Launched) => (quitCalls = 1 /\ driver = "quit_called")

C3_Witness ==
    /\ Exited /\ Launched /\ quitCalls = 1
    /\ \E t \in Targets : failure[t] # "none"
    /\ SomeDeliveryFailed

\* C4: no run ends with its temporary profile directory still existing.
C4_ProfileDirReleased ==
    Exited => chrome_data_dir # "exists"

\* C5: every setup/fatal error (configuration missing or malformed, required
\* key missing, browser launch failure) ends with exactly one notification
\* of the fatal error having been attempted.
C5_FatalErrorNotifiedOnce ==
    (Exited /\ fatal # "none") => Cardinality(NotifsAbout("fatal")) = 1

\* C6: a send_notification call whose delivery fails returns normally: the
\* run moves to the step that follows the call, no exception is pending, no
\* availability result changes; and a run with a failed delivery still
\* notifies every target once, quits the browser and exits with the status
\* (0) of a run without that failure.
C6_DeliveryFailureOnlyLogged ==
    /\ [][FailedDeliveryStep =>
            /\ pc' = AfterNotification(pc)
            /\ pending' = pending
            /\ fatal' = fatal
            /\ available' = available
            /\ error' = error]_vars
    /\ []((Exited /\ Launched /\ SomeDeliveryFailed) =>
            /\ quitCalls = 1
            /\ \A t \in Targets : Cardinality(NotifsAbout(t)) = 1
            /\ exitCode = 0)

C6_Witness ==
    /\ Exited /\ Launched /\ fatal = "none"
    /\ Len(notifications) = 3
    /\ notifications[1].delivery = "error_logged:non200"
    /\ notifications[2].delivery = "error_logged:exception"
    /\ notifications[3].delivery = "sent"
    /\ quitCalls = 1

\* C7: for a page that loads and whose check meets no exception, the result
\* is SoldOut (False, None), with no screenshot, exactly when some element
\* matched by one of the three selectors has a text containing "Sold Out",
\* and InStock (True, None), with a screenshot, otherwise; the selectors may
\* be tried in any order.  A page that loads, answers every query and lets
\* the screenshot call return meets no exception.
C7_SoldOutIffMarkerFound ==
    (pc = "detected" /\ env.load = "ok") =>
        LET r == result.outcome IN
        /\ ( /\ \A sel \in Selectors : env.dom[sel].kind # "WebDriverException"
             /\ env.shot # "raises" ) => r.caught = "none"
        /\ r.caught = "none" =>
             /\ r.error = None
             /\ r.available = ~AnySoldOut(env.dom)
             /\ r.screenshot = ~AnySoldOut(env.dom)
        /\ (\A sel \in Selectors : env.dom[sel].kind # "WebDriverException") =>
             \A o \in SelectorOrders :
                 ScanSelectors(env.dom, o, 1).found = AnySoldOut(env.dom)

C7_Witness ==
    /\ pc = "detected"
    /\ env.load = "ok"
    /\ env.dom[sold_out_selectors[1]].kind = "elements"
    /\ Len(env.dom[sold_out_selectors[1]].elements) = 1
    /\ ~HasSoldOutText(env.dom[sold_out_selectors[1]].elements[1])
    /\ env.dom[sold_out_selectors[2]].kind = "NoSuchElementException"
    /\ env.dom[sold_out_selectors[3]].kind = "elements"
    /\ Len(env.dom[sold_out_selectors[3]].elements) = 2
    /\ ~HasSoldOutText(env.dom[sold_out_selectors[3]].elements[1])
    /\ HasSoldOutText(env.dom[sold_out_selectors[3]].elements[2])
    /\ result.outcome.available = FALSE
    /\ result.outcome.error = None
    /\ result.outcome.screenshot = FALSE

\* C8: when driver.get or the wait for the body times out for a target, its
\* result is Error with the message "Timeout while loading the page for
\* <name>", no screenshot is taken for it, and its URL is navigated to once
\* in the run; no target is navigated to more than once.
C8_TimeoutIsErrorWithoutRetry ==
    /\ \A t \in Targets : navigations[t] <= 1
    /\ \A t \in DOMAIN loads :
           loads[t] \in {"get_timeout", "wait_timeout"} =>
               /\ t \in DOMAIN error
               /\ error[t] = TimeoutMessage(t)
               /\ ~available[t]
               /\ t \notin screenshots
               /\ navigations[t] = 1

C8_Witness ==
    /\ Exited /\ Launched
    /\ loads["switch"] = "ok"
    /\ loads["wifi"] = "wait_timeout"
    /\ loads["gateway"] = "get_timeout"
    /\ error["wifi"] = TimeoutMessage("wifi")
    /\ navigations["wifi"] = 1

\* C9: a run in which a top-level failure occurred exits with a non-zero
\* status, after one failure notification was attempted.
C9_FailureExitsNonZeroAfterNotification ==
    (Exited /\ fatal # "none") =>
        (exitCode # 0 /\ Cardinality(NotifsAbout("fatal")) = 1)

\* C10: every notification has a priority in {-2, -1, 1}; a target is
\* notified with 1 exactly when its result is InStock, with -2 when it is
\* SoldOut and with -1 when it is Error; a fatal error is sent with -1.
C10_PriorityFollowsResult ==
    \A i \in 1..Len(notifications) :
        LET n == notifications[i] IN
        /\ n.priority \in {-2, -1, 1}
        /\ n.about = "fatal" => n.priority = -1
        /\ n.about \in Targets =>
               /\ (n.priority = 1) <=> (Variant(n.about) = "InStock")
               /\ Variant(n.about) = "SoldOut" => n.priority = -2
               /\ Variant(n.about) = "Error" => n.priority = -1

C10_Witness ==
    /\ Exited
    /\ Len(notifications) = 4
    /\ notifications[1].priority = 1
    /\ notifications[2].priority = -2
    /\ notifications[3].priority = -1
    /\ notifications[4].about = "fatal"

====
